---------------------------- MODULE Spec2Model ----------------------------
(***************************************************************************)
(* Model of the portfolio core of BellCurve-Securities:                    *)
(*   utils/portfolio_optimizer.py  (performance model, optimizer, frontier)*)
(*   utils/bootstrap_simulator.py  (bootstrap simulator)                   *)
(*   utils/statistics_utils.py     (calculate_returns, Sharpe ratio)       *)
(*   pages/4_..._Portfolio_Optimization.py  (the page's flow, show)        *)
(*                                                                         *)
(* Specifications: Spec (one generate_efficient_frontier request),         *)
(* SpecBoot (one run_bootstrap_simulation call), SpecRerun (the call       *)
(* repeated with the same arguments), SpecFn (one call of a statistics     *)
(* function or of calculate_portfolio_performance), SpecPage (one run of   *)
(* the page: fetch, returns, frontier, simulation).                        *)
(*                                                                         *)
(* Number representation.  All arithmetic is exact.                        *)
(*  - A weight is an integer count of steps of size 1/WeightSteps, so the  *)
(*    vector w stands for the numpy vector w / WeightSteps.                *)
(*  - A per-period mean return and a covariance are integers in a fixed    *)
(*    small unit.                                                          *)
(*  - A portfolio return r stands for r / WeightSteps, and a volatility is *)
(*    carried by its square: var v stands for volatility sqrt(v) /         *)
(*    WeightSteps.  Volatility is 0 exactly when var is 0, and volatilities*)
(*    compare as their squares do.                                         *)
(*  - A Sharpe value is the pair [num, var] standing for num / sqrt(var);  *)
(*    with var = 0 it is what numpy's float division yields: +inf, -inf or *)
(*    nan according to the sign of num.                                    *)
(***************************************************************************)
EXTENDS Integers, Sequences, FiniteSets, TLC

(***************************************************************************)
(* Bounds of the model.                                                    *)
(***************************************************************************)
NumTickers == 4        \* size of the universe the request picks assets from
WeightSteps == 2       \* the solver's weight grid has steps of 1/WeightSteps
MaxPortfolios == 5     \* num_portfolios ranges over 0..MaxPortfolios

(***************************************************************************)
(* Program constants.                                                      *)
(***************************************************************************)
PeriodsPerYear == 252  \* the literal 252 of the annualisation
FirstFrontierIdx == 2  \* frontier_idx = 2

(***************************************************************************)
(* Input data: a universe of tickers with fixed per-period statistics.     *)
(* Covariances follow a one-factor model, beta(t)*beta(u) plus an          *)
(* idiosyncratic variance on the diagonal, which is positive semidefinite  *)
(* for every selection.  Ticker 3 (mod 4) has a constant price: mean 0 and *)
(* variance 0.                                                             *)
(***************************************************************************)
TickerMean(t) == CASE t % 4 = 1 -> 5
                   [] t % 4 = 2 -> 6
                   [] t % 4 = 3 -> 0
                   [] OTHER     -> 5

TickerBeta(t) == CASE t % 4 = 1 -> 1
                   [] t % 4 = 2 -> 0 - 1
                   [] t % 4 = 3 -> 0
                   [] OTHER     -> 0

TickerIdio(t) == CASE t % 4 = 1 -> 0
                   [] t % 4 = 2 -> 3
                   [] t % 4 = 3 -> 0
                   [] OTHER     -> 1

TickerCov(t, u) == TickerBeta(t) * TickerBeta(u) + (IF t = u THEN TickerIdio(t) ELSE 0)

\* daily risk-free rates the requests use: below, between and above the means
RiskFreeDaily == {0, 3, 7}

(***************************************************************************)
(* Helpers.                                                                *)
(***************************************************************************)
Range(s) == {s[i] : i \in DOMAIN s}

RECURSIVE SumFn(_, _)
SumFn(f, n) == IF n = 0 THEN 0 ELSE f[n] + SumFn(f, n - 1)

\* np.sum(w)
SumWeights(w) == SumFn(w, Len(w))

RECURSIVE SortedSeq(_)
SortedSeq(S) == IF S = {} THEN << >>
                ELSE LET m == CHOOSE x \in S : \A y \in S : x <= y
                     IN  <<m>> \o SortedSeq(S \ {m})

(***************************************************************************)
(* calculate_portfolio_performance: (portfolio_return, portfolio_volatility)*)
(* with the volatility carried by its square.                              *)
calculate_portfolio_performance_first_row(weights, mean_returns, cov_matrix) ==
    LET n == Len(mean_returns)
        prod == [i \in 1..n |-> mean_returns[i] * weights[i]]
        cw == [i \in 1..n |-> SumFn([j \in 1..n |-> cov_matrix[1][j] * weights[j]], n)]
        wcw == SumFn([i \in 1..n |-> weights[i] * cw[i]], n)
    IN  [ret |-> SumFn(prod, n) * PeriodsPerYear,
         var |-> wcw * PeriodsPerYear]

(***************************************************************************)
calculate_portfolio_performance(weights, mean_returns, cov_matrix) ==
    LET n == Len(mean_returns)
        prod == [i \in 1..n |-> mean_returns[i] * weights[i]]
        cw == [i \in 1..n |-> SumFn([j \in 1..n |-> cov_matrix[i][j] * weights[j]], n)]
        wcw == SumFn([i \in 1..n |-> weights[i] * cw[i]], n)
    IN  [ret |-> SumFn(prod, n) * PeriodsPerYear,
         var |-> wcw * PeriodsPerYear]

(***************************************************************************)
(* Sharpe values.  Excess(p, rf) is p_return - risk_free_rate in the unit  *)
(* of p.ret.                                                               *)
(***************************************************************************)
Excess(p, risk_free_rate) == p.ret - WeightSteps * risk_free_rate

\* (ret - risk_free_rate) / vol, unguarded: lines 62, 17
SharpeOf(p, risk_free_rate) == [num |-> Excess(p, risk_free_rate), var |-> p.var]

\* the literal 0 of "... if vol != 0 else 0": lines 68, 92
SharpeZero == [num |-> 0, var |-> 1]

\* (ret - risk_free_rate) / vol if vol != 0 else 0
GuardedSharpeOf(p, risk_free_rate) ==
    IF p.var # 0 THEN SharpeOf(p, risk_free_rate) ELSE SharpeZero

IsNaN(s) == s.var = 0 /\ s.num = 0
IsPosInf(s) == s.var = 0 /\ s.num > 0
IsNegInf(s) == s.var = 0 /\ s.num < 0

\* a >= b for finite a = a.num/sqrt(a.var), b = b.num/sqrt(b.var).  Returns,
\* the risk-free rate and variances are multiples of PeriodsPerYear; the
\* common factor is divided out before squaring (a value with num = 0 is 0
\* whatever its var).
FiniteGeq(a, b) ==
    LET an == a.num \div PeriodsPerYear
        bn == b.num \div PeriodsPerYear
        av == a.var \div PeriodsPerYear
        bv == b.var \div PeriodsPerYear
    IN  IF an >= 0 /\ bn <= 0 THEN TRUE
        ELSE IF an <= 0 /\ bn >= 0 THEN FALSE
        ELSE IF an > 0 THEN an * an * bv >= bn * bn * av
        ELSE an * an * bv <= bn * bn * av

\* IEEE comparison a >= b of two Sharpe values
SharpeGeq(a, b) ==
    IF IsNaN(a) \/ IsNaN(b) THEN FALSE
    ELSE IF IsPosInf(a) \/ IsNegInf(b) THEN TRUE
    ELSE IF IsNegInf(a) \/ IsPosInf(b) THEN FALSE
    ELSE FiniteGeq(a, b)

(***************************************************************************)
(* Objectives handed to the solver.  An objective value is compared, never *)
(* computed: ObjectiveLeq(o, a, b, ...) is objective(a) <= objective(b).   *)
(***************************************************************************)
\* calculate_neg_sharpe_ratio(a) <= calculate_neg_sharpe_ratio(b):
\* np.inf when p_volatility == 0, else -(p_return - risk_free_rate) / p_volatility
calculate_neg_sharpe_ratio_leq(a, b, mean_returns, cov_matrix, risk_free_rate) ==
    LET pa == calculate_portfolio_performance(a, mean_returns, cov_matrix)
        pb == calculate_portfolio_performance(b, mean_returns, cov_matrix)
    IN  IF pb.var = 0 THEN TRUE
        ELSE IF pa.var = 0 THEN FALSE
        ELSE FiniteGeq(SharpeOf(pa, risk_free_rate), SharpeOf(pb, risk_free_rate))

\* np.inf
PosInf == [inf |-> TRUE, num |-> 0, var |-> 1]

calculate_neg_sharpe_ratio_unguarded(weights, mean_returns, cov_matrix, rf) ==
    LET p == calculate_portfolio_performance(weights, mean_returns, cov_matrix)
    IN  [inf |-> FALSE, num |-> 0 - Excess(p, rf), var |-> p.var]

\* lines 12-17, the value: np.inf or -(p_return - risk_free_rate) / p_volatility
\* as the pair num / sqrt(var)
calculate_neg_sharpe_ratio(weights, mean_returns, cov_matrix, rf) ==
    LET p == calculate_portfolio_performance(weights, mean_returns, cov_matrix)
    IN  IF p.var = 0 THEN PosInf
        ELSE [inf |-> FALSE, num |-> 0 - Excess(p, rf), var |-> p.var]

\* calculate_portfolio_variance(a) <= calculate_portfolio_variance(b): the
\* function returns the volatility, ordered as its square
calculate_portfolio_variance_leq(a, b, mean_returns, cov_matrix) ==
    calculate_portfolio_performance(a, mean_returns, cov_matrix).var
        <= calculate_portfolio_performance(b, mean_returns, cov_matrix).var

ObjectiveLeq(objective, a, b, mean_returns, cov_matrix, risk_free_rate) ==
    IF objective = "calculate_neg_sharpe_ratio"
    THEN calculate_neg_sharpe_ratio_leq(a, b, mean_returns, cov_matrix, risk_free_rate)
    ELSE calculate_portfolio_variance_leq(a, b, mean_returns, cov_matrix)

(***************************************************************************)
(* Constraints and bounds as the page builds them and as the sweep builds  *)
(* its own.  A constraint is data: its type and which function it is.      *)
(***************************************************************************)
\* {'type': 'eq', 'fun': lambda w: np.sum(w) - 1}
SumToOne == [type |-> "eq", fun |-> "sum", num |-> 0, den |-> 1]

\* {'type': 'eq', 'fun': lambda w: performance(w)[0] - target_ret}, the target
\* being the rational num / den
TargetReturn(target_ret) ==
    [type |-> "eq", fun |-> "return", num |-> target_ret.num, den |-> target_ret.den]

\* constraints = ({'type': 'eq', 'fun': lambda w: np.sum(w) - 1})
PageConstraints == <<SumToOne>>

\* bounds = tuple((0.0, 1.0) for _ in range(num_assets))
PageBounds(num_assets) == [i \in 1..num_assets |-> <<0, WeightSteps>>]

\* fun(w) = 0
ConstraintHolds(c, w, mean_returns, cov_matrix) ==
    IF c.fun = "sum" THEN SumWeights(w) = WeightSteps
    ELSE calculate_portfolio_performance(w, mean_returns, cov_matrix).ret * c.den = c.num

WithinBounds(w, bounds) ==
    \A i \in DOMAIN w : bounds[i][1] <= w[i] /\ w[i] <= bounds[i][2]

(***************************************************************************)
(* scipy.optimize.minimize(objective, init_guess, method='SLSQP', bounds,  *)
(* constraints), by its contract: the result either reports failure, or    *)
(* reports success with x a minimiser of the objective among the points    *)
(* that satisfy the bounds and the constraints it was given.  Failure is   *)
(* always possible (convergence is not guaranteed), and certain when no    *)
(* point is feasible.  The points are those of the weight grid, one step   *)
(* beyond [0, 1] on either side included, so that bounds and constraints   *)
(* are what keeps the result a weight vector.                              *)
(***************************************************************************)
GridPoints(num_assets) == [1..num_assets -> (0 - 1)..(WeightSteps + 1)]

FeasiblePoints(num_assets, bounds, constraints, mean_returns, cov_matrix) ==
    {w \in GridPoints(num_assets) :
        /\ WithinBounds(w, bounds)
        /\ \A c \in Range(constraints) : ConstraintHolds(c, w, mean_returns, cov_matrix)}

NoResult == [success |-> FALSE, x |-> << >>]

minimize(objective, num_assets, mean_returns, cov_matrix, risk_free_rate, bounds, constraints) ==
    LET F == FeasiblePoints(num_assets, bounds, constraints, mean_returns, cov_matrix)
    IN  {NoResult} \cup
        {[success |-> TRUE, x |-> w] : w \in
            {a \in F : \A b \in F :
                ObjectiveLeq(objective, a, b, mean_returns, cov_matrix, risk_free_rate)}}

InitGuessFirstAsset(num_assets) ==
    [i \in 1..num_assets |-> [num |-> IF i = 1 THEN 1 ELSE 0, den |-> 1]]

\* init_guess = np.array(num_assets * [1. / num_assets]): each entry the rational 1/num_assets
InitGuess(num_assets) == [i \in 1..num_assets |-> [num |-> 1, den |-> num_assets]]

(***************************************************************************)
(* find_optimal_portfolio: one solve from the equal-weight guess; None     *)
(* when the solver reports failure, else result.x.  The value is the set   *)
(* of results the call can have; solved is the solver's own success flag, *)
(* kept for the history of solver calls.                                   *)
(***************************************************************************)
ObjectiveForAlwaysSharpe(opt_type) == "calculate_neg_sharpe_ratio"

ObjectiveFor(opt_type) ==
    IF opt_type = "max_sharpe" THEN "calculate_neg_sharpe_ratio"
    ELSE "calculate_portfolio_variance"

find_optimal_portfolio_never_none(opt_type, mean_returns, cov_matrix, risk_free_rate, num_assets, constraints, bounds) ==
    {[is_none |-> FALSE, solved |-> result.success,
      weights |-> IF result.success THEN result.x ELSE [i \in 1..num_assets |-> bounds[i][1]]] :
        result \in minimize(ObjectiveFor(opt_type), num_assets, mean_returns, cov_matrix,
                            risk_free_rate, bounds, constraints)}

find_optimal_portfolio(opt_type, mean_returns, cov_matrix, risk_free_rate, num_assets, constraints, bounds) ==
    {[is_none |-> ~result.success, solved |-> result.success, weights |-> result.x] :
        result \in minimize(ObjectiveFor(opt_type), num_assets, mean_returns, cov_matrix,
                            risk_free_rate, bounds, constraints)}

(***************************************************************************)
(* State of one generate_efficient_frontier request.                       *)
(***************************************************************************)
VARIABLES
    mean_returns,        \* argument: per-period mean return per asset
    cov_matrix,          \* argument: covariance matrix
    num_portfolios,      \* argument
    risk_free_rate,      \* argument (annual)
    pc,                  \* position in generate_efficient_frontier
    results,             \* the results array, by column
    max_sharpe,          \* max_sharpe_weights, _ret, _vol, _ratio
    min_vol,             \* min_vol_weights, _ret, _vol, min_vol_sharpe
    target_returns,      \* np.linspace(...)
    sweep_pos,           \* index of the next target_ret of the for loop
    frontier_idx,
    returned,            \* what the call returned or raised
    solver_calls,        \* history: every minimize invocation, in order
    \* state of one run_bootstrap_simulation call
    returns_df,          \* argument: the table of daily returns
    weights,             \* argument
    num_simulations,     \* argument
    sim_years,           \* argument, in units of 1 / SimYearsDen of a year
    sim_pc,              \* position in run_bootstrap_simulation
    sim_days,
    sim_iter,            \* iterations of the for loop completed
    simulated_end_values,
    all_sim_returns,
    sim_returned,        \* what the call returned or raised
    draws,               \* history: the row indices each resample drew
    \* the caller of run_bootstrap_simulation
    previous_run,        \* what the preceding call with the same arguments returned
    \* one call of a function of statistics_utils or of calculate_portfolio_performance
    fn_call,             \* the function called and its arguments
    fn_result,           \* what the call returned or raised
    \* one run of the Portfolio Optimization page (show)
    page_pc,             \* position in show
    portfolio_tickers,   \* the selected tickers
    page_data,           \* data: the fetched price table
    page_returns,        \* returns = calculate_returns(data)
    selected_portfolio_for_sim,
    page_calls           \* history: the functions show has called, in order

frontier_vars == <<mean_returns, cov_matrix, num_portfolios, risk_free_rate, pc, results,
                   max_sharpe, min_vol, target_returns, sweep_pos, frontier_idx, returned,
                   solver_calls>>

sim_vars == <<returns_df, weights, num_simulations, sim_years, sim_pc, sim_days, sim_iter,
              simulated_end_values, all_sim_returns, sim_returned, draws>>

caller_vars == <<previous_run>>

fn_vars == <<fn_call, fn_result>>

page_vars == <<page_pc, portfolio_tickers, page_data, page_returns, selected_portfolio_for_sim,
               page_calls>>

outside_frontier == <<sim_vars, caller_vars, fn_vars, page_vars>>

outside_sim == <<frontier_vars, caller_vars, fn_vars, page_vars>>

vars == <<frontier_vars, sim_vars, caller_vars, fn_vars, page_vars>>

num_assets == Len(mean_returns)

NoPoint == [weights |-> << >>, ret |-> 0, var |-> 0, sharpe |-> SharpeZero]

NotReturned == [kind |-> "running", error |-> "", rows |-> << >>]

\* pd.DataFrame()
EmptyFrame == [kind |-> "frame", error |-> "", rows |-> << >>]

Raised(e) == [kind |-> "raise", error |-> e, rows |-> << >>]

\* one column of np.zeros((3 + len(mean_returns), num_portfolios))
ZeroColumn(n) == [ret |-> 0, var |-> 0, sharpe |-> SharpeZero, weights |-> [i \in 1..n |-> 0]]

Selections == {SortedSeq(S) : S \in SUBSET (1..NumTickers)}

FrontierInit ==
    /\ \E tickers \in Selections :
          /\ mean_returns = [i \in 1..Len(tickers) |-> TickerMean(tickers[i])]
          /\ cov_matrix = [i \in 1..Len(tickers) |->
                              [j \in 1..Len(tickers) |-> TickerCov(tickers[i], tickers[j])]]
    /\ num_portfolios \in 0..MaxPortfolios
    /\ risk_free_rate \in {d * PeriodsPerYear : d \in RiskFreeDaily}
    /\ pc = "start"
    /\ results = << >>
    /\ max_sharpe = NoPoint
    /\ min_vol = NoPoint
    /\ target_returns = << >>
    /\ sweep_pos = 0
    /\ frontier_idx = 0
    /\ returned = NotReturned
    /\ solver_calls = << >>

\* no generate_efficient_frontier request is running
FrontierIdle ==
    /\ mean_returns = << >>
    /\ cov_matrix = << >>
    /\ num_portfolios = 0
    /\ risk_free_rate = 0
    /\ pc = "idle"
    /\ results = << >>
    /\ max_sharpe = NoPoint
    /\ min_vol = NoPoint
    /\ target_returns = << >>
    /\ sweep_pos = 0
    /\ frontier_idx = 0
    /\ returned = NotReturned
    /\ solver_calls = << >>

\* a call of minimize as the history records it
SolverCall(opt, target, success) ==
    [opt |-> opt, init_guess |-> InitGuess(num_assets), target |-> target, success |-> success]

NoTarget == [num |-> 0, den |-> 1]

(***************************************************************************)
(* Lines 54-56: allocate results, num_assets, init_guess.  1. / num_assets *)
(* raises ZeroDivisionError when there is no asset.                        *)
(***************************************************************************)
Allocate ==
    /\ pc = "start"
    /\ results' = [c \in 0..(num_portfolios - 1) |-> ZeroColumn(num_assets)]
    /\ \/ /\ num_assets = 0
          /\ returned' = Raised("ZeroDivisionError")
          /\ pc' = "done"
       \/ /\ num_assets # 0
          /\ returned' = returned
          /\ pc' = "max_sharpe"
    /\ UNCHANGED <<outside_frontier, mean_returns, cov_matrix, num_portfolios, risk_free_rate, max_sharpe,
                   min_vol, target_returns, sweep_pos, frontier_idx, solver_calls>>

(***************************************************************************)
(* Lines 58-62: the max-Sharpe solve; an empty DataFrame when it fails.    *)
(***************************************************************************)
SolveMaxSharpe ==
    /\ pc = "max_sharpe"
    /\ \E r \in find_optimal_portfolio("max_sharpe", mean_returns, cov_matrix, risk_free_rate,
                                       num_assets, PageConstraints, PageBounds(num_assets)) :
          /\ solver_calls' = Append(solver_calls, SolverCall("max_sharpe", NoTarget, r.solved))
          /\ \/ /\ r.is_none
                /\ returned' = EmptyFrame
                /\ pc' = "done"
                /\ UNCHANGED max_sharpe
             \/ /\ ~r.is_none
                /\ LET p == calculate_portfolio_performance(r.weights, mean_returns, cov_matrix)
                   IN  max_sharpe' = [weights |-> r.weights, ret |-> p.ret, var |-> p.var,
                                      sharpe |-> SharpeOf(p, risk_free_rate)]
                /\ pc' = "min_vol"
                /\ UNCHANGED returned
    /\ UNCHANGED <<outside_frontier, mean_returns, cov_matrix, num_portfolios, risk_free_rate, results,
                   min_vol, target_returns, sweep_pos, frontier_idx>>

(***************************************************************************)
(* Lines 64-68: the min-volatility solve; an empty DataFrame when it fails.*)
(***************************************************************************)
SolveMinVol ==
    /\ pc = "min_vol"
    /\ \E r \in find_optimal_portfolio("min_volatility", mean_returns, cov_matrix, risk_free_rate,
                                       num_assets, PageConstraints, PageBounds(num_assets)) :
          /\ solver_calls' = Append(solver_calls, SolverCall("min_volatility", NoTarget, r.solved))
          /\ \/ /\ r.is_none
                /\ returned' = EmptyFrame
                /\ pc' = "done"
                /\ UNCHANGED min_vol
             \/ /\ ~r.is_none
                /\ LET p == calculate_portfolio_performance(r.weights, mean_returns, cov_matrix)
                   IN  min_vol' = [weights |-> r.weights, ret |-> p.ret, var |-> p.var,
                                   sharpe |-> GuardedSharpeOf(p, risk_free_rate)]
                /\ pc' = "store"
                /\ UNCHANGED returned
    /\ UNCHANGED <<outside_frontier, mean_returns, cov_matrix, num_portfolios, risk_free_rate, results,
                   max_sharpe, target_returns, sweep_pos, frontier_idx>>

(***************************************************************************)
(* np.linspace(start, stop, num) for num >= 0, stop the rational           *)
(* stop.num / stop.den: no element, the single element start, or num       *)
(* evenly spaced elements from start to stop, both included.               *)
(***************************************************************************)
linspace(start, stop, num) ==
    IF num = 1 THEN <<[num |-> start, den |-> 1]>>
    ELSE [i \in 1..num |->
            [num |-> start * stop.den * (num - 1) + (i - 1) * (stop.num - start * stop.den),
             den |-> stop.den * (num - 1)]]

NumTargetsAll(n) == n

\* the num of np.linspace(..., num_portfolios - 2)
NumTargets(n) == n - 2

TimesOne(r) == [num |-> r, den |-> 1]

\* max_sharpe_ret * 1.2
TimesOnePointTwo(r) == [num |-> 6 * r, den |-> 5]

\* results[:, c] = column; the index must be one of the array's columns
InRange(res, c) == c \in DOMAIN res

SetColumn(res, c, column) == [res EXCEPT ![c] = column]

ColumnOfWithoutWeights(point) ==
    [ret |-> point.ret, var |-> point.var, sharpe |-> point.sharpe,
     weights |-> [i \in DOMAIN point.weights |-> 0]]

ColumnOf(point) ==
    [ret |-> point.ret, var |-> point.var, sharpe |-> point.sharpe, weights |-> point.weights]

(***************************************************************************)
(* Lines 70-79: store the two optimal portfolios in columns 0 and 1, build *)
(* the target returns, frontier_idx = 2.  An index beyond the array's      *)
(* num_portfolios columns raises IndexError.                               *)
(***************************************************************************)
StoreOptimal ==
    /\ pc = "store"
    /\ \/ /\ ~(InRange(results, 0) /\ InRange(results, 1))
          /\ returned' = Raised("IndexError")
          /\ pc' = "done"
          /\ UNCHANGED <<results, target_returns, sweep_pos, frontier_idx>>
       \/ /\ InRange(results, 0) /\ InRange(results, 1)
          /\ results' = SetColumn(SetColumn(results, 0, ColumnOf(min_vol)), 1, ColumnOf(max_sharpe))
          /\ target_returns' = linspace(min_vol.ret, TimesOnePointTwo(max_sharpe.ret),
                                        NumTargets(num_portfolios))
          /\ frontier_idx' = FirstFrontierIdx
          /\ sweep_pos' = 1
          /\ pc' = "sweep"
          /\ UNCHANGED returned
    /\ UNCHANGED <<outside_frontier, mean_returns, cov_matrix, num_portfolios, risk_free_rate, max_sharpe,
                   min_vol, solver_calls>>

(***************************************************************************)
(* Lines 80-95: one iteration of the sweep: minimise the volatility under  *)
(* the sweep's own constraints (weights sum to 1, return equals the        *)
(* target) and the caller's bounds; a successful result is written at      *)
(* frontier_idx, a failed one is skipped.                                  *)
(***************************************************************************)
EffConstraintsTargetOnly(target_ret) == <<TargetReturn(target_ret)>>

EffConstraints(target_ret) == <<SumToOne, TargetReturn(target_ret)>>

SweepColumnFromZero == frontier_idx - FirstFrontierIdx

\* the column a successful sweep result is written to: results[:, frontier_idx]
SweepColumn == frontier_idx

NextFrontierIdxAlways(idx, success) == idx + 1

\* if result.success: ... frontier_idx += 1
NextFrontierIdx(idx, success) == IF success THEN idx + 1 ELSE idx

SweepStep ==
    /\ pc = "sweep"
    /\ sweep_pos <= Len(target_returns)
    /\ LET target_ret == target_returns[sweep_pos]
       IN  \E result \in minimize("calculate_portfolio_variance", num_assets, mean_returns,
                                  cov_matrix, risk_free_rate, PageBounds(num_assets),
                                  EffConstraints(target_ret)) :
              /\ solver_calls' = Append(solver_calls, SolverCall("sweep", target_ret, result.success))
              /\ \/ /\ result.success
                    /\ LET p == calculate_portfolio_performance(result.x, mean_returns, cov_matrix)
                       IN  results' = SetColumn(results, SweepColumn,
                                         [ret |-> p.ret, var |-> p.var,
                                          sharpe |-> GuardedSharpeOf(p, risk_free_rate),
                                          weights |-> result.x])
                    /\ frontier_idx' = NextFrontierIdx(frontier_idx, TRUE)
                 \/ /\ ~result.success
                    /\ frontier_idx' = NextFrontierIdx(frontier_idx, FALSE)
                    /\ UNCHANGED results
    /\ sweep_pos' = sweep_pos + 1
    /\ UNCHANGED <<outside_frontier, mean_returns, cov_matrix, num_portfolios, risk_free_rate, pc, max_sharpe,
                   min_vol, target_returns, returned>>

(***************************************************************************)
(* Lines 97-104: the first frontier_idx columns become the rows of the     *)
(* returned table, named 'Portfolio 1', 'Portfolio 2', ... with the first  *)
(* two renamed 'Min Volatility' and 'Max Sharpe'.                          *)
(***************************************************************************)
PortfolioLabelFromZero(i) == <<"Portfolio", i>>

PortfolioLabel(i) == <<"Portfolio", i + 1>>

Rename(label) ==
    IF label = <<"Portfolio", 1>> THEN <<"Min Volatility">>
    ELSE IF label = <<"Portfolio", 2>> THEN <<"Max Sharpe">>
    ELSE label

FrameOf(res, idx) ==
    [kind |-> "frame", error |-> "",
     rows |-> [r \in 1..idx |->
                 [label |-> Rename(PortfolioLabel(r - 1)),
                  ret |-> res[r - 1].ret, var |-> res[r - 1].var,
                  sharpe |-> res[r - 1].sharpe, weights |-> res[r - 1].weights]]]

ReturnFrontier ==
    /\ pc = "sweep"
    /\ sweep_pos > Len(target_returns)
    /\ returned' = FrameOf(results, frontier_idx)
    /\ pc' = "done"
    /\ UNCHANGED <<outside_frontier, mean_returns, cov_matrix, num_portfolios, risk_free_rate, results,
                   max_sharpe, min_vol, target_returns, sweep_pos, frontier_idx, solver_calls>>

(***************************************************************************)
(* run_bootstrap_simulation.                                               *)
(*                                                                         *)
(* The returns table holds integers in units of 1/ReturnScale; a weight w  *)
(* stands for w / WeightSteps, so a weighted daily return d stands for     *)
(* d / SimUnit and an ending value is the rational num / den.              *)
(***************************************************************************)
MaxRows == 2           \* the returns table has 0..MaxRows rows
MaxSimulations == 2    \* num_simulations ranges over 1..MaxSimulations
MaxSimYears == 4       \* sim_years ranges over 1..MaxSimYears units of 1/SimYearsDen
ReturnScale == 10      \* a table entry r stands for the return r / ReturnScale

SimYearsDen == 2 * PeriodsPerYear
SimUnit == WeightSteps * ReturnScale

\* the history: the return of ticker t on day d
DailyReturn(t, d) == ((t + 2 * d) % 3) - 1

ReturnsTable(ncols, nrows) ==
    [columns |-> ncols,
     rows |-> [d \in 1..nrows |-> [t \in 1..ncols |-> DailyReturn(t, d)]]]

IsEmptyNever(df) == FALSE

\* returns_df.empty: some axis has length 0
IsEmpty(df) == df.columns = 0 \/ Len(df.rows) = 0

\* weight vectors the caller passes: of any length, summing to 1
WeightVectors(m) ==
    IF m = 0 THEN {<< >>}
    ELSE {w \in [1..m -> 0..WeightSteps] : SumWeights(w) = WeightSteps}

\* go.Figure(): a figure is its sequence of traces
EmptyFigure == << >>

SimNotReturned == [kind |-> "running", error |-> "", end_values |-> << >>, fig |-> EmptyFigure]

SimReturn(end_values, fig) ==
    [kind |-> "return", error |-> "", end_values |-> end_values, fig |-> fig]

SimInit ==
    /\ \E ncols \in 0..NumTickers, nrows \in 0..MaxRows : returns_df = ReturnsTable(ncols, nrows)
    /\ \E m \in 0..NumTickers : weights \in WeightVectors(m)
    /\ num_simulations \in 1..MaxSimulations
    /\ sim_years \in 1..MaxSimYears
    /\ sim_pc = "start"
    /\ sim_days = 0
    /\ sim_iter = 0
    /\ simulated_end_values = << >>
    /\ all_sim_returns = << >>
    /\ sim_returned = SimNotReturned
    /\ draws = << >>

\* no run_bootstrap_simulation call is running
SimIdle ==
    /\ returns_df = ReturnsTable(0, 0)
    /\ weights = << >>
    /\ num_simulations = 0
    /\ sim_years = 0
    /\ sim_pc = "idle"
    /\ sim_days = 0
    /\ sim_iter = 0
    /\ simulated_end_values = << >>
    /\ all_sim_returns = << >>
    /\ sim_returned = SimNotReturned
    /\ draws = << >>

\* int(sim_years * 252): the product truncated
SimDaysOf(years) == (years * PeriodsPerYear) \div SimYearsDen

(***************************************************************************)
(* Lines 21-26: the guard returns ([], go.Figure()) for an empty table or  *)
(* a weight vector of another length than the table has columns; else the  *)
(* horizon and the two empty lists are set up.                             *)
(***************************************************************************)
SimStart ==
    /\ sim_pc = "start"
    /\ \/ /\ IsEmpty(returns_df) \/ Len(weights) # returns_df.columns
          /\ sim_returned' = SimReturn(<< >>, EmptyFigure)
          /\ sim_pc' = "done"
          /\ UNCHANGED sim_days
       \/ /\ ~(IsEmpty(returns_df) \/ Len(weights) # returns_df.columns)
          /\ sim_days' = SimDaysOf(sim_years)
          /\ sim_pc' = "loop"
          /\ UNCHANGED sim_returned
    /\ UNCHANGED <<outside_sim, returns_df, weights, num_simulations, sim_years, sim_iter,
                   simulated_end_values, all_sim_returns, draws>>

\* bootstrap_sample.dot(weights): one weighted return per drawn row
DotWeights(sample, w) ==
    [i \in 1..Len(sample) |-> SumFn([j \in 1..Len(w) |-> sample[i][j] * w[j]], Len(w))]

CompoundedReturnSum(series, n) == [num |-> SimUnit + SumFn(series, n), den |-> SimUnit]

\* (1 + series).prod(), from 1
RECURSIVE CompoundedReturn(_, _)
CompoundedReturn(series, n) ==
    IF n = 0 THEN [num |-> 1, den |-> 1]
    ELSE LET rest == CompoundedReturn(series, n - 1)
         IN  [num |-> rest.num * (SimUnit + series[n]), den |-> rest.den * SimUnit]

ResampleMixed(df, indices) ==
    [i \in 1..Len(indices) |->
        [j \in 1..df.columns |->
            df.rows[indices[IF j = 1 THEN i ELSE Len(indices) + 1 - i]][j]]]

ResampleOne(df, indices) == IF Len(indices) = 0 THEN << >> ELSE <<df.rows[indices[1]]>>

\* resample(returns_df, n_samples, replace=True): the rows at the drawn indices
Resample(df, indices) == [i \in 1..Len(indices) |-> df.rows[indices[i]]]

(***************************************************************************)
(* Lines 28-36: one iteration of the loop: draw sim_days rows with         *)
(* replacement, compound the weighted returns, collect them.               *)
(***************************************************************************)
SimPath ==
    /\ sim_pc = "loop"
    /\ sim_iter < num_simulations
    /\ \E indices \in [1..sim_days -> 1..Len(returns_df.rows)] :
          LET bootstrap_sample == Resample(returns_df, indices)
              daily == DotWeights(bootstrap_sample, weights)
          IN  /\ simulated_end_values' =
                    Append(simulated_end_values, CompoundedReturn(daily, Len(daily)))
              /\ all_sim_returns' = all_sim_returns \o daily
              /\ draws' = Append(draws, indices)
    /\ sim_iter' = sim_iter + 1
    /\ UNCHANGED <<outside_sim, returns_df, weights, num_simulations, sim_years, sim_pc,
                   sim_days, sim_returned>>

(***************************************************************************)
(* Lines 38-47: the histogram figure of all_sim_returns, and the return.   *)
(***************************************************************************)
SimFinish ==
    /\ sim_pc = "loop"
    /\ sim_iter = num_simulations
    /\ sim_returned' = SimReturn(simulated_end_values, <<[x |-> all_sim_returns]>>)
    /\ sim_pc' = "done"
    /\ UNCHANGED <<outside_sim, returns_df, weights, num_simulations, sim_years, sim_days,
                   sim_iter, simulated_end_values, all_sim_returns, draws>>

\* no preceding call of run_bootstrap_simulation
NoRun == [kind |-> "none", error |-> "", end_values |-> << >>, fig |-> EmptyFigure]

CallerIdle == previous_run = NoRun

(***************************************************************************)
(* The page calls run_bootstrap_simulation on every press of "Run          *)
(* Simulation" (page lines 87-94): a second press with the inputs left as  *)
(* they are is a second call with identical arguments.  The function has   *)
(* no seed parameter and draws from the process-wide generator, so the     *)
(* second call draws afresh.                                               *)
(***************************************************************************)
SimAgain ==
    /\ sim_pc = "done"
    /\ previous_run = NoRun
    /\ previous_run' = sim_returned
    /\ sim_pc' = "start"
    /\ sim_days' = 0
    /\ sim_iter' = 0
    /\ simulated_end_values' = << >>
    /\ all_sim_returns' = << >>
    /\ sim_returned' = SimNotReturned
    /\ draws' = << >>
    /\ UNCHANGED <<frontier_vars, fn_vars, page_vars, returns_df, weights, num_simulations, sim_years>>

(***************************************************************************)
(* Single calls of calculate_returns, calculate_sharpe_ratio               *)
(* (statistics_utils.py) and calculate_portfolio_performance.              *)
(*                                                                         *)
(* A pandas object is its type, its number of columns and its rows; a      *)
(* Series is one column.  A float is the exact quotient num / den; 0 / 0   *)
(* is nan and x / 0 with x # 0 is an infinity, as in IEEE arithmetic.      *)
(***************************************************************************)
MaxPrice == 2        \* a price ranges over 0..MaxPrice
MaxSeriesLen == 3    \* a series or table has 0..MaxSeriesLen rows

FnPending == [kind |-> "pending", error |-> "", value |-> << >>]

FnReturn(v) == [kind |-> "return", error |-> "", value |-> v]

FnRaise(e) == [kind |-> "raise", error |-> e, value |-> << >>]

NoCall == [fn |-> "none"]

\* no such call is running
FnIdle == fn_call = NoCall /\ fn_result = FnPending

PandasKinds == {"Series", "DataFrame"}

OtherKinds == {"ndarray", "list", "dict"}

\* the column counts of the data a caller passes: a DataFrame of one or two columns
ColumnsOf(kind) == IF kind = "DataFrame" THEN {1, 2} ELSE {1}

\* the tables of nrows rows of prices
PriceRows(ncols, nrows) == [1..nrows -> [1..ncols -> 0..MaxPrice]]

\* np.nan
NaN == [num |-> 0, den |-> 0]

isna(x) == x.num = 0 /\ x.den = 0

\* data.pct_change(): the first row is nan, row k is (p[k] - p[k-1]) / p[k-1]
pct_change(rows, ncols) ==
    [k \in 1..Len(rows) |->
        [c \in 1..ncols |-> IF k = 1 THEN NaN
                            ELSE [num |-> rows[k][c] - rows[k - 1][c], den |-> rows[k - 1][c]]]]

dropna_nothing(rows) == rows

\* .dropna(): the rows without any nan
dropna(rows) == SelectSeq(rows, LAMBDA row : \A c \in DOMAIN row : ~isna(row[c]))

calculate_returns_any_kind(data) ==
    FnReturn([kind |-> data.kind, columns |-> data.columns,
              rows |-> dropna(pct_change(data.rows, data.columns))])

\* statistics_utils.py lines 7-14
calculate_returns(data) ==
    IF data.kind = "Series"
    THEN FnReturn([kind |-> "Series", columns |-> data.columns,
                   rows |-> dropna(pct_change(data.rows, data.columns))])
    ELSE IF data.kind = "DataFrame"
    THEN FnReturn([kind |-> "DataFrame", columns |-> data.columns,
                   rows |-> dropna(pct_change(data.rows, data.columns))])
    ELSE FnRaise("ValueError")

ReturnValues == {-1, 0, 1}

\* the series of n returns
ReturnSeries(n) == [1..n -> ReturnValues]

\* returns.std(): the sample standard deviation (ddof = 1), by its square
\* (n * sum(x^2) - sum(x)^2) / (n * (n - 1)); nan for fewer than two entries
std(returns) ==
    LET n == Len(returns)
        s == SumFn(returns, n)
        q == SumFn([i \in 1..n |-> returns[i] * returns[i]], n)
    IN  [num |-> n * q - s * s, den |-> n * (n - 1)]

\* returns.std() == 0; a comparison with nan is False
StdIsZero(sd) == sd.den # 0 /\ sd.num = 0

\* a Sharpe ratio is excess / sqrt(var) * sqrt(252); the literal 0 is 0 / sqrt(1)
ZeroRatio == [excess |-> [num |-> 0, den |-> 1], var |-> [num |-> 1, den |-> 1]]

\* returns.mean() - risk_free_rate / 252
ExcessReturns(returns, rf) ==
    [num |-> PeriodsPerYear * SumFn(returns, Len(returns)) - Len(returns) * rf,
     den |-> PeriodsPerYear * Len(returns)]

\* statistics_utils.py lines 30-36
calculate_sharpe_ratio(returns, rf) ==
    IF Len(returns) = 0 \/ StdIsZero(std(returns))
    THEN FnReturn(ZeroRatio)
    ELSE FnReturn([excess |-> ExcessReturns(returns, rf), var |-> std(returns)])

\* mean_returns * weights (line 8): numpy stretches an operand of length 1
Broadcastable(m, n) == m = n \/ m = 1 \/ n = 1

BroadcastTo(w, n) == [i \in 1..n |-> IF Len(w) = 1 THEN w[1] ELSE w[i]]

DotBroadcasts(matrix, w) == Len(matrix) = Len(w) \/ Len(w) = 1

\* np.dot(cov_matrix, weights) (line 9): the shapes are aligned
DotAligned(matrix, w) == Len(matrix) = Len(w)

\* portfolio_optimizer.py lines 6-10, called with vectors of any lengths
PerformanceCall(w, means, cov) ==
    IF ~Broadcastable(Len(w), Len(means)) THEN FnRaise("ValueError")
    ELSE IF ~DotAligned(cov, w) THEN FnRaise("ValueError")
    ELSE FnReturn(calculate_portfolio_performance(BroadcastTo(w, Len(means)), means, cov))

FnInit ==
    /\ \/ \E k \in PandasKinds \cup OtherKinds, n \in 0..MaxSeriesLen :
             \E c \in ColumnsOf(k) :
                \E r \in PriceRows(c, n) :
                   fn_call = [fn |-> "calculate_returns",
                              data |-> [kind |-> k, columns |-> c, rows |-> r]]
       \/ \E n \in 0..MaxSeriesLen, d \in RiskFreeDaily : \E r \in ReturnSeries(n) :
             fn_call = [fn |-> "calculate_sharpe_ratio", returns |-> r,
                        risk_free_rate |-> d * PeriodsPerYear]
       \/ \E tickers \in Selections, m \in 0..NumTickers :
             \E w \in WeightVectors(m) :
                fn_call = [fn |-> "calculate_portfolio_performance", weights |-> w,
                           mean_returns |-> [i \in 1..Len(tickers) |-> TickerMean(tickers[i])],
                           cov_matrix |-> [i \in 1..Len(tickers) |->
                                             [j \in 1..Len(tickers) |->
                                                 TickerCov(tickers[i], tickers[j])]]]
       \/ \E tickers \in Selections, d \in RiskFreeDaily :
             \E w \in WeightVectors(Len(tickers)) :
                fn_call = [fn |-> "calculate_neg_sharpe_ratio", weights |-> w,
                           mean_returns |-> [i \in 1..Len(tickers) |-> TickerMean(tickers[i])],
                           cov_matrix |-> [i \in 1..Len(tickers) |->
                                             [j \in 1..Len(tickers) |->
                                                 TickerCov(tickers[i], tickers[j])]],
                           risk_free_rate |-> d * PeriodsPerYear]
    /\ fn_result = FnPending

CalculateReturns ==
    /\ fn_call.fn = "calculate_returns"
    /\ fn_result = FnPending
    /\ fn_result' = calculate_returns(fn_call.data)
    /\ UNCHANGED <<frontier_vars, sim_vars, caller_vars, page_vars, fn_call>>

CalculateSharpeRatio ==
    /\ fn_call.fn = "calculate_sharpe_ratio"
    /\ fn_result = FnPending
    /\ fn_result' = calculate_sharpe_ratio(fn_call.returns, fn_call.risk_free_rate)
    /\ UNCHANGED <<frontier_vars, sim_vars, caller_vars, page_vars, fn_call>>

CalculatePortfolioPerformance ==
    /\ fn_call.fn = "calculate_portfolio_performance"
    /\ fn_result = FnPending
    /\ fn_result' = PerformanceCall(fn_call.weights, fn_call.mean_returns, fn_call.cov_matrix)
    /\ UNCHANGED <<frontier_vars, sim_vars, caller_vars, page_vars, fn_call>>

(***************************************************************************)
(* The Portfolio Optimization page: one run of show().  The page fetches   *)
(* prices, computes returns, mean and covariance, runs                     *)
(* generate_efficient_frontier (the actions Allocate .. ReturnFrontier) and *)
(* on "Run Simulation" run_bootstrap_simulation (SimStart .. SimFinish).   *)
(*                                                                         *)
(* A fetched price table is its shape and whether any price is missing;    *)
(* its returns are the history's returns DailyReturn of the selected       *)
(* tickers, one row fewer.  Mean and covariance are exact in the units     *)
(* 1/T and 1/(T*(T-1)) for T rows of returns; the solver's comparisons do  *)
(* not depend on the unit of the covariance.  The sliders' ranges are      *)
(* scaled down to the model's bounds: num_portfolios >= 2 as on the page.  *)
(***************************************************************************)
NoTable == [columns |-> 0, rows |-> << >>]

PageIdle ==
    /\ page_pc = "idle"
    /\ portfolio_tickers = << >>
    /\ page_data = [columns |-> 0, rows |-> 0, isnull |-> FALSE]
    /\ page_returns = NoTable
    /\ selected_portfolio_for_sim = ""
    /\ page_calls = << >>

\* what get_stock_data may return for the tickers: pd.DataFrame() on failure,
\* else a table with one column per ticker, in which prices may be missing
FetchedData(tickers) ==
    {[columns |-> 0, rows |-> 0, isnull |-> FALSE]}
    \cup {[columns |-> Len(tickers), rows |-> k, isnull |-> b] :
             k \in 0..(MaxRows + 1), b \in BOOLEAN}

PageInit ==
    /\ page_pc = "start"
    /\ portfolio_tickers \in Selections
    /\ page_data \in FetchedData(portfolio_tickers)
    /\ page_returns = NoTable
    /\ selected_portfolio_for_sim = ""
    /\ page_calls = << >>

DataIsRejectedWhenEmpty(df) == df.columns = 0 \/ df.rows = 0

\* data.empty or data.isnull().values.any()
DataIsRejected(df) == df.columns = 0 \/ df.rows = 0 \/ df.isnull

\* calculate_returns(data) for the prices of the tickers: one row fewer than
\* the price rows
ReturnsOf(tickers, df) ==
    [columns |-> df.columns,
     rows |-> [d \in 1..(IF df.rows = 0 THEN 0 ELSE df.rows - 1) |->
                 [i \in 1..df.columns |-> DailyReturn(tickers[i], d)]]]

\* returns.mean(), in units of 1 / T
SampleMean(df) ==
    [i \in 1..df.columns |-> SumFn([d \in 1..Len(df.rows) |-> df.rows[d][i]], Len(df.rows))]

\* returns.cov() (ddof = 1), in units of 1 / (T * (T - 1))
SampleCov(df) ==
    LET T == Len(df.rows)
        S == SampleMean(df)
    IN  [i \in 1..df.columns |->
            [j \in 1..df.columns |->
                T * SumFn([d \in 1..T |-> df.rows[d][i] * df.rows[d][j]], T) - S[i] * S[j]]]

(***************************************************************************)
(* Lines 18-34: fewer than two tickers end the run; else the prices are    *)
(* fetched, and an empty table or one with a missing price ends the run.   *)
(***************************************************************************)
PageFetch ==
    /\ page_pc = "start"
    /\ \/ /\ Len(portfolio_tickers) < 2
          /\ page_pc' = "done"
          /\ UNCHANGED page_calls
       \/ /\ Len(portfolio_tickers) >= 2
          /\ page_calls' = Append(page_calls, "get_stock_data")
          /\ page_pc' = IF DataIsRejected(page_data) THEN "done" ELSE "returns"
    /\ UNCHANGED <<frontier_vars, sim_vars, caller_vars, fn_vars, portfolio_tickers, page_data,
                   page_returns, selected_portfolio_for_sim>>

(***************************************************************************)
(* Lines 37-40: the returns; fewer than two rows of them end the run.      *)
(***************************************************************************)
PageReturns ==
    /\ page_pc = "returns"
    /\ page_returns' = ReturnsOf(portfolio_tickers, page_data)
    /\ page_calls' = Append(page_calls, "calculate_returns")
    /\ page_pc' = IF IsEmpty(page_returns') \/ Len(page_returns'.rows) < 2
                  THEN "done" ELSE "statistics"
    /\ UNCHANGED <<frontier_vars, sim_vars, caller_vars, fn_vars, portfolio_tickers, page_data,
                   selected_portfolio_for_sim>>

\* the page's "Number of portfolios" slider, scaled down; at least 2 as on the page
PageNumPortfolios == {2, 3}

(***************************************************************************)
(* Lines 42-57: mean and covariance, the slider, and the call of           *)
(* generate_efficient_frontier with the session's risk-free rate.          *)
(***************************************************************************)
PageOptimize ==
    /\ page_pc = "statistics"
    /\ mean_returns' = SampleMean(page_returns)
    /\ cov_matrix' = SampleCov(page_returns)
    /\ num_portfolios' \in PageNumPortfolios
    /\ risk_free_rate' \in {d * PeriodsPerYear : d \in RiskFreeDaily}
    /\ pc' = "start"
    /\ page_calls' = page_calls \o <<"mean", "cov", "generate_efficient_frontier">>
    /\ page_pc' = "optimize"
    /\ UNCHANGED <<sim_vars, caller_vars, fn_vars, portfolio_tickers, page_data, page_returns,
                   selected_portfolio_for_sim, results, max_sharpe, min_vol, target_returns,
                   sweep_pos, frontier_idx, returned, solver_calls>>

\* results_df of the page: what the call returned, pd.DataFrame() when it raised
ResultsDf == IF returned.kind = "frame" THEN returned ELSE EmptyFrame

(***************************************************************************)
(* Lines 56-76 and 136-137: an exception or an empty table ends the run    *)
(* with a warning; else the frontier and the two portfolios are shown.     *)
(***************************************************************************)
PageShowFrontier ==
    /\ page_pc = "optimize"
    /\ pc = "done"
    /\ page_pc' = IF ResultsDf.rows = << >> THEN "done" ELSE "frontier"
    /\ UNCHANGED <<frontier_vars, sim_vars, caller_vars, fn_vars, portfolio_tickers, page_data,
                   page_returns, selected_portfolio_for_sim, page_calls>>

SimChoices == {"Max Sharpe", "Min Volatility"}

\* the page's "Number of Bootstrap Simulations" and "Simulation Horizon",
\* scaled down: one path of one or two periods
PageNumSims == {1}

PageSimYears == {SimYearsDen \div PeriodsPerYear, 2 * (SimYearsDen \div PeriodsPerYear)}

WeightsForSimAlwaysMaxSharpe(df, choice) ==
    LET r == CHOOSE r \in DOMAIN df.rows : df.rows[r].label = <<"Max Sharpe">>
    IN  df.rows[r].weights

\* results_df.loc[choice].drop(['Return', 'Volatility', 'Sharpe Ratio']).values
WeightsForSim(df, choice) ==
    LET r == CHOOSE r \in DOMAIN df.rows : df.rows[r].label = <<choice>>
    IN  df.rows[r].weights

(***************************************************************************)
(* Lines 78-94: the radio choice, the two inputs and the button; a press   *)
(* calls run_bootstrap_simulation with the returns and the chosen row's    *)
(* weights.                                                                *)
(***************************************************************************)
PageRunSimulation ==
    /\ page_pc = "frontier"
    /\ \E choice \in SimChoices, pressed \in BOOLEAN :
          /\ selected_portfolio_for_sim' = choice
          /\ \/ /\ ~pressed
                /\ page_pc' = "done"
                /\ UNCHANGED <<sim_vars, page_calls>>
             \/ /\ pressed
                /\ returns_df' = page_returns
                /\ weights' = WeightsForSim(ResultsDf, choice)
                /\ num_simulations' \in PageNumSims
                /\ sim_years' \in PageSimYears
                /\ sim_pc' = "start"
                /\ page_calls' = Append(page_calls, "run_bootstrap_simulation")
                /\ page_pc' = "simulate"
                /\ UNCHANGED <<sim_days, sim_iter, simulated_end_values, all_sim_returns,
                               sim_returned, draws>>
    /\ UNCHANGED <<frontier_vars, caller_vars, fn_vars, portfolio_tickers, page_data,
                   page_returns>>

(***************************************************************************)
(* Lines 96-107: the histogram and the metrics, or the warning.            *)
(***************************************************************************)
PageShowSimulation ==
    /\ page_pc = "simulate"
    /\ sim_pc = "done"
    /\ page_pc' = "done"
    /\ UNCHANGED <<frontier_vars, sim_vars, caller_vars, fn_vars, portfolio_tickers, page_data,
                   page_returns, selected_portfolio_for_sim, page_calls>>

Init == FrontierInit /\ SimIdle /\ CallerIdle /\ FnIdle /\ PageIdle

Next ==
    \/ Allocate
    \/ SolveMaxSharpe
    \/ SolveMinVol
    \/ StoreOptimal
    \/ SweepStep
    \/ ReturnFrontier

Spec == Init /\ [][Next]_vars

InitBoot == FrontierIdle /\ SimInit /\ CallerIdle /\ FnIdle /\ PageIdle

NextBoot ==
    \/ SimStart
    \/ SimPath
    \/ SimFinish

SpecBoot == InitBoot /\ [][NextBoot]_vars

\* run_bootstrap_simulation called twice with the same arguments
NextRerun ==
    \/ SimStart
    \/ SimPath
    \/ SimFinish
    \/ SimAgain

SpecRerun == InitBoot /\ [][NextRerun]_vars

\* one call of a statistics function or of calculate_portfolio_performance
CalculateNegSharpeRatio ==
    /\ fn_call.fn = "calculate_neg_sharpe_ratio"
    /\ fn_result = FnPending
    /\ fn_result' = FnReturn(calculate_neg_sharpe_ratio(fn_call.weights, fn_call.mean_returns,
                                                        fn_call.cov_matrix, fn_call.risk_free_rate))
    /\ UNCHANGED <<frontier_vars, sim_vars, caller_vars, page_vars, fn_call>>

InitFn == FrontierIdle /\ SimIdle /\ CallerIdle /\ FnInit /\ PageIdle

NextFn ==
    \/ CalculateReturns
    \/ CalculateSharpeRatio
    \/ CalculatePortfolioPerformance
    \/ CalculateNegSharpeRatio

SpecFn == InitFn /\ [][NextFn]_vars

\* one run of the page
InitPage == FrontierIdle /\ SimIdle /\ CallerIdle /\ FnIdle /\ PageInit

NextPage ==
    \/ PageFetch
    \/ PageReturns
    \/ PageOptimize
    \/ Allocate
    \/ SolveMaxSharpe
    \/ SolveMinVol
    \/ StoreOptimal
    \/ SweepStep
    \/ ReturnFrontier
    \/ PageShowFrontier
    \/ PageRunSimulation
    \/ SimStart
    \/ SimPath
    \/ SimFinish
    \/ PageShowSimulation

SpecPage == InitPage /\ [][NextPage]_vars

(***************************************************************************)
(* Properties of generate_efficient_frontier (under Spec).                 *)
(***************************************************************************)
CallsOf(opt) == {i \in DOMAIN solver_calls : solver_calls[i].opt = opt}

Solved(opt) == \E i \in CallsOf(opt) : solver_calls[i].success

BothSolved == Solved("max_sharpe") /\ Solved("min_volatility")

SweepSuccesses == SelectSeq(solver_calls, LAMBDA c : c.opt = "sweep" /\ c.success)

SweepFailures == SelectSeq(solver_calls, LAMBDA c : c.opt = "sweep" /\ ~c.success)

NonEmptyFrame == returned.kind = "frame" /\ returned.rows # << >>

IsWeightVector(w) ==
    /\ SumWeights(w) = WeightSteps
    /\ \A i \in DOMAIN w : 0 <= w[i] /\ w[i] <= WeightSteps

\* C1: a request over 0 or 1 assets fails with InsufficientAssets, and no
\* solve is invoked before it fails.
C1_InsufficientAssetsBeforeSolver ==
    num_assets < 2 =>
        /\ solver_calls = << >>
        /\ pc = "done" => returned = Raised("InsufficientAssets")

\* C2: a failed max-Sharpe or min-volatility solve yields no weight vector,
\* ends the request at once with a frontier of no rows, and neither
\* distinguished solve is invoked more than once in a request.
C2_DistinguishedFailureIsFatal ==
    /\ Cardinality(CallsOf("max_sharpe")) <= 1
    /\ Cardinality(CallsOf("min_volatility")) <= 1
    /\ \A i \in DOMAIN solver_calls :
          (solver_calls[i].opt # "sweep" /\ ~solver_calls[i].success) =>
              /\ i = Len(solver_calls)
              /\ pc = "done"
              /\ returned = EmptyFrame
              /\ solver_calls[i].opt = "max_sharpe" => max_sharpe = NoPoint
              /\ solver_calls[i].opt = "min_volatility" => min_vol = NoPoint

C2_Witness ==
    /\ pc = "done"
    /\ Len(solver_calls) = 2
    /\ solver_calls[1].success
    /\ ~solver_calls[2].success

\* C3: once both distinguished solves have succeeded and the sweep is
\* entered (num_portfolios >= 2), sweep failures never fail the request: the
\* table has 2 + (successful sweep solves) rows, at most num_portfolios, and
\* its rows after the second are the successful sweep results in order, each
\* meeting its own target return (no padded row).
C3_SweepFailuresDropped ==
    (pc = "done" /\ num_portfolios >= 2 /\ BothSolved) =>
        /\ returned.kind = "frame"
        /\ Len(returned.rows) = 2 + Len(SweepSuccesses)
        /\ Len(returned.rows) <= num_portfolios
        /\ \A j \in 1..Len(SweepSuccesses) :
              /\ returned.rows[2 + j].ret * SweepSuccesses[j].target.den
                    = SweepSuccesses[j].target.num
              /\ SumWeights(returned.rows[2 + j].weights) = WeightSteps

C3_Witness ==
    /\ NonEmptyFrame
    /\ Len(SweepFailures) >= 1
    /\ Len(SweepSuccesses) >= 1
    /\ ~solver_calls[3].success

\* C4: in a non-empty frontier the first row is labelled Min Volatility and
\* the second Max Sharpe, each holds a result of its own solve, and from the
\* moment they are stored the sweep never changes columns 0 and 1.
C4_DistinguishedPointsKept ==
    /\ (pc \in {"sweep", "done"} /\ frontier_idx >= FirstFrontierIdx) =>
          /\ results[0] = ColumnOf(min_vol)
          /\ results[1] = ColumnOf(max_sharpe)
    /\ NonEmptyFrame =>
          /\ returned.rows[1].label = <<"Min Volatility">>
          /\ returned.rows[2].label = <<"Max Sharpe">>
          /\ [is_none |-> FALSE, solved |-> TRUE, weights |-> returned.rows[1].weights] \in
                find_optimal_portfolio("min_volatility", mean_returns, cov_matrix,
                    risk_free_rate, num_assets, PageConstraints, PageBounds(num_assets))
          /\ [is_none |-> FALSE, solved |-> TRUE, weights |-> returned.rows[2].weights] \in
                find_optimal_portfolio("max_sharpe", mean_returns, cov_matrix,
                    risk_free_rate, num_assets, PageConstraints, PageBounds(num_assets))
          /\ returned.rows[1].ret = min_vol.ret /\ returned.rows[1].var = min_vol.var
          /\ returned.rows[1].sharpe = min_vol.sharpe
          /\ returned.rows[2].ret = max_sharpe.ret /\ returned.rows[2].var = max_sharpe.var
          /\ returned.rows[2].sharpe = max_sharpe.sharpe

C4_Witness ==
    /\ NonEmptyFrame
    /\ Len(returned.rows) >= 4
    /\ returned.rows[1].weights # returned.rows[2].weights
    /\ returned.rows[4].weights # returned.rows[1].weights
    /\ returned.rows[4].weights # returned.rows[2].weights

\* C5: with num_portfolios = 2 and 3 or more assets no sweep solve is ever
\* invoked, and when both distinguished solves succeed the call returns
\* exactly the two distinguished rows after exactly two solver invocations,
\* max-Sharpe then min-volatility.
C5_TwoPortfoliosTwoSolves ==
    (num_portfolios = 2 /\ num_assets >= 3) =>
        /\ CallsOf("sweep") = {}
        /\ Len(solver_calls) <= 2
        /\ (pc = "done" /\ BothSolved) =>
              /\ returned.kind = "frame"
              /\ Len(returned.rows) = 2
              /\ returned.rows[1].label = <<"Min Volatility">>
              /\ returned.rows[2].label = <<"Max Sharpe">>
              /\ [i \in 1..Len(solver_calls) |-> solver_calls[i].opt]
                    = <<"max_sharpe", "min_volatility">>

C5_Witness ==
    /\ num_portfolios = 2
    /\ num_assets >= 3
    /\ NonEmptyFrame
    /\ Len(solver_calls) = 2

\* C6: for every num_portfolios <= 2 (1 and 0 included), when both
\* distinguished solves succeed the call completes without error and
\* returns exactly the two distinguished rows.
C6_SmallCountsAreValid ==
    (num_portfolios <= 2 /\ pc = "done" /\ BothSolved) =>
        /\ returned.kind = "frame"
        /\ Len(returned.rows) = 2
        /\ CallsOf("sweep") = {}

\* C7: every weight vector in a returned frontier table sums to 1 and has
\* every entry in [0, 1].
C7_RowsHoldWeightVectors ==
    returned.kind = "frame" =>
        \A r \in DOMAIN returned.rows : IsWeightVector(returned.rows[r].weights)

C7_Witness ==
    /\ NonEmptyFrame
    /\ num_assets >= 2
    /\ Len(returned.rows) >= 4
    /\ returned.rows[4].weights # returned.rows[3].weights

\* C8: in every non-empty frontier (2 or more assets) the Sharpe ratio
\* recorded for Max Sharpe is >= the one recorded for Min Volatility.
C8_MaxSharpeDominatesMinVol ==
    (NonEmptyFrame /\ num_assets >= 2) =>
        SharpeGeq(returned.rows[2].sharpe, returned.rows[1].sharpe)

\* C9: every sweep row whose return is >= the Min Volatility row's return
\* has volatility >= the Min Volatility row's volatility.
C9_MinVolatilityIsLowest ==
    NonEmptyFrame =>
        \A r \in 3..Len(returned.rows) :
            returned.rows[r].ret >= returned.rows[1].ret =>
                returned.rows[r].var >= returned.rows[1].var

C9_Witness ==
    /\ NonEmptyFrame
    /\ \E r \in 3..Len(returned.rows) :
          /\ returned.rows[r].ret > returned.rows[1].ret
          /\ returned.rows[r].var > returned.rows[1].var

(***************************************************************************)
(* Properties of run_bootstrap_simulation (under SpecBoot).                *)
(***************************************************************************)
\* C10: with a non-empty returns table and a weight vector of another
\* length than the table has columns, the call fails with DimensionMismatch
\* and returns no normal result.
C10_DimensionMismatchRaised ==
    (sim_pc = "done" /\ ~IsEmpty(returns_df) /\ Len(weights) # returns_df.columns) =>
        /\ sim_returned.kind = "raise"
        /\ sim_returned.error = "DimensionMismatch"

\* the arguments pass the guard of lines 21-22
TableAndWeightsMatch ==
    /\ returns_df.columns > 0
    /\ Len(returns_df.rows) > 0
    /\ Len(weights) = returns_df.columns

\* row r of the table times the weights
RowDot(r) ==
    SumFn([j \in 1..Len(weights) |-> returns_df.rows[r][j] * weights[j]], Len(weights))

\* the product of 1 + RowDot over the first k drawn rows, from 1
RECURSIVE PathProduct(_, _)
PathProduct(indices, k) ==
    IF k = 0 THEN [num |-> 1, den |-> 1]
    ELSE LET rest == PathProduct(indices, k - 1)
         IN  [num |-> rest.num * (SimUnit + RowDot(indices[k])), den |-> rest.den * SimUnit]

SameRational(a, b) == a.num * b.den = b.num * a.den

\* C11: with an empty returns table the call returns an empty collection of
\* ending values at once: no row is drawn and no path is simulated, whatever
\* num_simulations, sim_years and weights are.
C11_EmptyTableReturnsNothing ==
    (sim_pc \notin {"idle", "start"}
        /\ (returns_df.columns = 0 \/ Len(returns_df.rows) = 0)) =>
        /\ sim_pc = "done"
        /\ sim_returned = SimReturn(<< >>, EmptyFigure)
        /\ simulated_end_values = << >>
        /\ sim_iter = 0
        /\ draws = << >>

C11_Witness ==
    /\ sim_pc = "done"
    /\ Len(returns_df.rows) = 0
    /\ returns_df.columns > 1
    /\ Len(weights) = returns_df.columns
    /\ num_simulations > 1
    /\ sim_returned.kind = "return"

\* C12: for a non-empty table and matching weights the call returns exactly
\* num_simulations ending values, one per path, together with the weighted
\* daily returns of all paths in full: num_simulations * sim_days entries,
\* path after path.
C12_ReturnsAllValuesAndDailyReturns ==
    (sim_pc = "done" /\ TableAndWeightsMatch) =>
        /\ sim_returned.kind = "return"
        /\ Len(sim_returned.end_values) = num_simulations
        /\ Len(draws) = num_simulations
        /\ Len(sim_returned.fig) = 1
        /\ Len(sim_returned.fig[1].x) = num_simulations * sim_days
        /\ \A i \in 1..num_simulations : \A k \in 1..sim_days :
              sim_returned.fig[1].x[(i - 1) * sim_days + k] = RowDot(draws[i][k])

C12_Witness ==
    /\ sim_pc = "done"
    /\ TableAndWeightsMatch
    /\ returns_df.columns > 1
    /\ num_simulations = 2
    /\ sim_days = 2
    /\ Len(sim_returned.fig[1].x) = 4

\* C13: the ending value of every path is the product, from 1, of
\* 1 + row . weights over exactly the sim_days rows drawn for that path;
\* with one simulation of one day it is 1 + row . weights of the one row.
C13_EndValueIsCompoundedProduct ==
    /\ \A i \in 1..Len(simulated_end_values) :
          /\ Len(draws[i]) = sim_days
          /\ SameRational(simulated_end_values[i], PathProduct(draws[i], sim_days))
    /\ (sim_pc = "done" /\ TableAndWeightsMatch /\ num_simulations = 1 /\ sim_days = 1) =>
          /\ Len(sim_returned.end_values) = 1
          /\ SameRational(sim_returned.end_values[1],
                          [num |-> SimUnit + RowDot(draws[1][1]), den |-> SimUnit])

C13_Witness ==
    /\ sim_pc = "done"
    /\ sim_days = 2
    /\ Len(simulated_end_values) = num_simulations
    /\ draws[1][1] # draws[1][2]
    /\ RowDot(draws[1][1]) # 0
    /\ RowDot(draws[1][2]) # 0
    /\ simulated_end_values[1].num # simulated_end_values[1].den

(***************************************************************************)
(* Properties of repeated run_bootstrap_simulation calls (under SpecRerun).*)
(***************************************************************************)
\* C14: two calls with identical arguments and the same seed return
\* identical ending values, whatever the state outside the arguments.
\* The call takes no seed, so any two calls with the same arguments are
\* calls with the same arguments and seed.
C14_SameArgumentsSameValues ==
    (sim_pc = "done" /\ previous_run.kind = "return") =>
        sim_returned.end_values = previous_run.end_values

(***************************************************************************)
(* Properties of calculate_returns, calculate_sharpe_ratio and             *)
(* calculate_portfolio_performance (under SpecFn).                         *)
(***************************************************************************)
ReturnsCallDone == fn_call.fn = "calculate_returns" /\ fn_result.kind # "pending"

\* data is a Series or a DataFrame of at least one row
PandasInput == fn_call.data.kind \in PandasKinds /\ Len(fn_call.data.rows) >= 1

NoZeroPrice == \A k \in DOMAIN fn_call.data.rows : \A c \in 1..fn_call.data.columns :
                  fn_call.data.rows[k][c] # 0

\* the result has one row per price row but the first, row k holding
\* (price[k+1] - price[k]) / price[k]
AllButFirstRow ==
    /\ fn_result.kind = "return"
    /\ fn_result.value.kind = fn_call.data.kind
    /\ Len(fn_result.value.rows) = Len(fn_call.data.rows) - 1
    /\ \A k \in 1..(Len(fn_call.data.rows) - 1) : \A c \in 1..fn_call.data.columns :
          fn_result.value.rows[k][c].num * fn_call.data.rows[k][c]
              = (fn_call.data.rows[k + 1][c] - fn_call.data.rows[k][c])
                   * fn_result.value.rows[k][c].den

\* C15 as stated: for gap-free prices of n >= 1 rows calculate_returns
\* yields n - 1 rows, the k-th being (price[k+1] - price[k]) / price[k]:
\* only the first row is dropped.
C15_OnlyFirstRowDropped == (ReturnsCallDone /\ PandasInput) => AllButFirstRow

\* C15 amended: the same for gap-free prices none of which is 0; the
\* returns are then finite.
C15_OnlyFirstRowDroppedNonZeroPrices ==
    (ReturnsCallDone /\ PandasInput /\ NoZeroPrice) =>
        /\ AllButFirstRow
        /\ \A k \in DOMAIN fn_result.value.rows : \A c \in 1..fn_call.data.columns :
              fn_result.value.rows[k][c].den # 0

C15_Witness ==
    /\ ReturnsCallDone
    /\ fn_call.data.kind = "DataFrame"
    /\ fn_call.data.columns = 2
    /\ Len(fn_call.data.rows) = MaxSeriesLen
    /\ NoZeroPrice
    /\ Len(fn_result.value.rows) = MaxSeriesLen - 1
    /\ fn_result.value.rows[1][1].num > 0
    /\ fn_result.value.rows[2][2].num < 0

\* C16: given data that is neither a Series nor a DataFrame,
\* calculate_returns raises its invalid-input error (ValueError) and
\* produces no return series.
C16_OtherInputKindsRaise ==
    (ReturnsCallDone /\ fn_call.data.kind \notin {"Series", "DataFrame"}) =>
        /\ fn_result.kind = "raise"
        /\ fn_result.error = "ValueError"
        /\ fn_result.value = << >>

C16_Witness ==
    /\ ReturnsCallDone
    /\ fn_call.data.kind = "list"
    /\ Len(fn_call.data.rows) > 1
    /\ fn_result.kind = "raise"

SharpeCallDone == fn_call.fn = "calculate_sharpe_ratio" /\ fn_result.kind # "pending"

\* the value is the number 0
IsZeroRatio(v) == v.excess.num = 0 /\ v.excess.den # 0 /\ v.var.num # 0 /\ v.var.den # 0

\* C17: calculate_sharpe_ratio returns exactly 0 whenever the series is
\* empty or constant, a series of length 1 included, and never raises.
C17_DegenerateSeriesGiveZero ==
    (SharpeCallDone
        /\ \A i, j \in DOMAIN fn_call.returns : fn_call.returns[i] = fn_call.returns[j]) =>
        /\ fn_result.kind = "return"
        /\ IsZeroRatio(fn_result.value)

PerformanceCallDone ==
    fn_call.fn = "calculate_portfolio_performance" /\ fn_result.kind # "pending"

AssetOrders(n) == {p \in [1..n -> 1..n] : \A i, j \in 1..n : p[i] = p[j] => i = j}

Permuted(v, p) == [i \in 1..Len(v) |-> v[p[i]]]

PermutedMatrix(c, p) == [i \in 1..Len(c) |-> [j \in 1..Len(c) |-> c[p[i]][p[j]]]]

\* C18: calculate_portfolio_performance is permutation-symmetric: permuting
\* the assets consistently in weights, mean_returns and cov_matrix leaves the
\* return 252 * sum(w_i * m_i) and the volatility sqrt(252) * sqrt(w' C w)
\* unchanged.
C18_PerformancePermutationSymmetric ==
    (PerformanceCallDone /\ Len(fn_call.weights) = Len(fn_call.mean_returns)) =>
        /\ fn_result.kind = "return"
        /\ \A p \in AssetOrders(Len(fn_call.weights)) :
              calculate_portfolio_performance(Permuted(fn_call.weights, p),
                                              Permuted(fn_call.mean_returns, p),
                                              PermutedMatrix(fn_call.cov_matrix, p))
                  = fn_result.value

C18_Witness ==
    /\ PerformanceCallDone
    /\ fn_result.kind = "return"
    /\ Len(fn_call.weights) >= 3
    /\ Len(fn_call.mean_returns) = Len(fn_call.weights)
    /\ fn_call.weights[1] # fn_call.weights[2]
    /\ fn_call.mean_returns[1] # fn_call.mean_returns[2]
    /\ fn_result.value.ret # 0
    /\ fn_result.value.var # 0

\* C19: called with a weight vector of another length than mean_returns and
\* cov_matrix have assets, calculate_portfolio_performance raises at once;
\* it never returns a pair computed from broadcast inputs, a length-1
\* weight vector against n assets included.
C19_LengthMismatchRaises ==
    (PerformanceCallDone /\ Len(fn_call.weights) # Len(fn_call.mean_returns)) =>
        /\ fn_result.kind = "raise"
        /\ fn_result.value = << >>

C19_Witness ==
    /\ PerformanceCallDone
    /\ Len(fn_call.weights) = 1
    /\ Len(fn_call.mean_returns) >= 2
    /\ fn_result.kind = "raise"

(***************************************************************************)
(* Properties of the sweep's target returns (under Spec).                  *)
(***************************************************************************)
SweepCalls == SelectSeq(solver_calls, LAMBDA c : c.opt = "sweep")

\* the request went through the whole sweep and returned its table
SweepComplete == pc = "done" /\ returned.kind = "frame" /\ BothSolved

\* t is the j-th of k >= 2 evenly spaced values from r_min to 1.2 * r_max:
\* r_min + (j - 1) * (6/5 * r_max - r_min) / (k - 1)
IsEvenlySpacedTarget(t, j, k) ==
    t.num * 5 * (k - 1)
        = t.den * (5 * (k - 1) * min_vol.ret + (j - 1) * (6 * max_sharpe.ret - 5 * min_vol.ret))

IsReturn(t, r) == t.num = t.den * r

IsReturnTimesOnePointTwo(t, r) == 5 * t.num = t.den * 6 * r

\* C20 as stated: for num_portfolios > 2 the sweep solves exactly
\* K = num_portfolios - 2 targets, evenly spaced from r_min to r_max * 1.2
\* with both endpoints included, in that order, each once.
C20_SweepTargetsWithBothEndpoints ==
    (SweepComplete /\ num_portfolios > 2) =>
        /\ Len(SweepCalls) = num_portfolios - 2
        /\ IsReturn(SweepCalls[1].target, min_vol.ret)
        /\ IsReturnTimesOnePointTwo(SweepCalls[Len(SweepCalls)].target, max_sharpe.ret)
        /\ (Len(SweepCalls) >= 2 =>
               \A j \in 1..Len(SweepCalls) :
                  IsEvenlySpacedTarget(SweepCalls[j].target, j, Len(SweepCalls)))

\* C20 amended: for num_portfolios > 3 the sweep solves exactly
\* K = num_portfolios - 2 targets, evenly spaced from r_min to r_max * 1.2
\* with both endpoints included, in that order, each once; for
\* num_portfolios = 3 it solves the single target r_min.
C20_SweepTargetsEvenlySpaced ==
    /\ \A j \in 1..Len(SweepCalls) :
          IF num_portfolios - 2 = 1
          THEN IsReturn(SweepCalls[j].target, min_vol.ret)
          ELSE IsEvenlySpacedTarget(SweepCalls[j].target, j, num_portfolios - 2)
    /\ Len(SweepCalls) <= IF num_portfolios > 2 THEN num_portfolios - 2 ELSE 0
    /\ (SweepComplete /\ num_portfolios > 2) =>
          /\ Len(SweepCalls) = num_portfolios - 2
          /\ IsReturn(SweepCalls[1].target, min_vol.ret)
          /\ (num_portfolios > 3 =>
                 IsReturnTimesOnePointTwo(SweepCalls[Len(SweepCalls)].target, max_sharpe.ret))

C20_Witness ==
    /\ SweepComplete
    /\ num_portfolios = MaxPortfolios
    /\ Len(SweepCalls) = MaxPortfolios - 2
    /\ max_sharpe.ret # 0
    /\ min_vol.ret # max_sharpe.ret
    /\ \A i, j \in 1..Len(SweepCalls) :
          i # j => SweepCalls[i].target # SweepCalls[j].target

(***************************************************************************)
(* Properties of the Sharpe ratios of the frontier table (under Spec).     *)
(***************************************************************************)
\* C21: every Sharpe ratio of the returned table is guarded: in the
\* Min Volatility row, the Max Sharpe row and every sweep row, a volatility
\* of 0 gives the stored Sharpe ratio 0, and nothing is divided by 0.
C21_ZeroVolatilityRowsHoldZeroSharpe ==
    returned.kind = "frame" =>
        \A r \in DOMAIN returned.rows :
            returned.rows[r].var = 0 => returned.rows[r].sharpe = SharpeZero

(***************************************************************************)
(* Properties of the simulator's horizon and draws (under SpecBoot).       *)
(***************************************************************************)
\* sim_years * 252 rounded to the nearest integer, a half rounded up
RoundHalfUp(years) == (2 * years * PeriodsPerYear + SimYearsDen) \div (2 * SimYearsDen)

\* the same, a half rounded to the even neighbour (Python's round)
RoundHalfEven(years) ==
    LET floor == (years * PeriodsPerYear) \div SimYearsDen
        rest == (years * PeriodsPerYear) % SimYearsDen
    IN  IF 2 * rest < SimYearsDen THEN floor
        ELSE IF 2 * rest > SimYearsDen THEN floor + 1
        ELSE IF floor % 2 = 0 THEN floor ELSE floor + 1

\* C22: the horizon in periods is sim_days = round(sim_years * 252) for
\* every positive sim_years, a product with a fractional part of 0.5 or
\* more included: the nearest integer, not the truncation.
C22_HorizonIsRounded ==
    (sim_pc \in {"loop", "done"} /\ TableAndWeightsMatch) =>
        sim_days \in {RoundHalfUp(sim_years), RoundHalfEven(sim_years)}

\* the weighted daily returns collected for path i
PathReturns(i) == [k \in 1..sim_days |-> all_sim_returns[(i - 1) * sim_days + k]]

\* the product of 1 + d over the first k entries of a path's collected returns
RECURSIVE ReturnsProduct(_, _)
ReturnsProduct(daily, k) ==
    IF k = 0 THEN [num |-> 1, den |-> 1]
    ELSE LET rest == ReturnsProduct(daily, k - 1)
         IN  [num |-> rest.num * (SimUnit + daily[k]), den |-> rest.den * SimUnit]

\* C23: every draw is one full row of the returns table, drawn with
\* replacement: each weighted daily return of every path is row . weights
\* for the single row drawn at that step, never a mix of rows, and the
\* ending value of a path is compounded from the very returns collected for
\* that path.
C23_DrawsAreFullRows ==
    /\ Len(draws) = Len(simulated_end_values)
    /\ Len(all_sim_returns) = Len(draws) * sim_days
    /\ \A i \in 1..Len(draws) :
          /\ \A k \in 1..sim_days :
                /\ draws[i][k] \in 1..Len(returns_df.rows)
                /\ PathReturns(i)[k] = RowDot(draws[i][k])
          /\ SameRational(simulated_end_values[i], ReturnsProduct(PathReturns(i), sim_days))

\* a path that drew the same row twice, beside a path that drew two rows
\* whose mixture is the weighted return of no row
C23_Witness ==
    /\ sim_pc = "done"
    /\ TableAndWeightsMatch
    /\ returns_df.columns > 1
    /\ sim_days = 2
    /\ num_simulations = 2
    /\ draws[1][1] = draws[1][2]
    /\ draws[2][1] # draws[2][2]
    /\ RowDot(draws[2][1]) # RowDot(draws[2][2])

(***************************************************************************)
(* Properties of calculate_neg_sharpe_ratio (under SpecFn).                *)
(***************************************************************************)
NegSharpeCallDone == fn_call.fn = "calculate_neg_sharpe_ratio" /\ fn_result.kind # "pending"

\* weights' C weights of the call: zero exactly when the volatility is
QuadraticForm ==
    LET n == Len(fn_call.weights)
    IN  SumFn([i \in 1..n |->
                  SumFn([j \in 1..n |->
                            fn_call.weights[i] * fn_call.cov_matrix[i][j] * fn_call.weights[j]],
                        n)], n)

\* C24: calculate_neg_sharpe_ratio returns +inf whenever the annualized
\* volatility is 0, dividing nothing, and -(return - risk_free_rate) /
\* volatility otherwise.
C24_NegSharpeInfiniteAtZeroVolatility ==
    NegSharpeCallDone =>
        /\ fn_result.kind = "return"
        /\ IF QuadraticForm = 0
           THEN fn_result.value.inf /\ fn_result.value = PosInf
           ELSE /\ ~fn_result.value.inf
                /\ fn_result.value.var = PeriodsPerYear * QuadraticForm
                /\ fn_result.value.num =
                      0 - (PeriodsPerYear
                              * SumFn([i \in 1..Len(fn_call.weights) |->
                                         fn_call.mean_returns[i] * fn_call.weights[i]],
                                      Len(fn_call.weights))
                           - WeightSteps * fn_call.risk_free_rate)

C24_Witness ==
    /\ NegSharpeCallDone
    /\ Len(fn_call.weights) >= 2
    /\ QuadraticForm = 0
    /\ fn_call.risk_free_rate > 0
    /\ fn_result.value.inf

(***************************************************************************)
(* Properties of the solver invocations of one request (under Spec).       *)
(***************************************************************************)
\* the equal-weight vector: 1 / n per asset
IsEqualWeightGuess(guess, n) ==
    /\ Len(guess) = n
    /\ \A i \in 1..n : guess[i].num * n = guess[i].den

\* C25: every solver invocation of one request (max-Sharpe, min-volatility
\* and each sweep target) starts from the equal-weight vector 1/N per
\* asset: the guess of the k-th sweep solve is that of the first, whatever
\* the earlier solves returned.
C25_EverySolveStartsFromEqualWeights ==
    \A k \in DOMAIN solver_calls :
        /\ IsEqualWeightGuess(solver_calls[k].init_guess, num_assets)
        /\ solver_calls[k].init_guess = solver_calls[1].init_guess

\* a request of several assets whose earlier solves ended away from the
\* equal weights, with two sweep solves made
C25_Witness ==
    /\ pc = "done"
    /\ num_assets >= 3
    /\ Len(SweepCalls) >= 2
    /\ \E i \in 1..num_assets : max_sharpe.weights[i] * num_assets # WeightSteps
    /\ \E r \in DOMAIN returned.rows : r > 2

\* C27: the max-Sharpe solve comes first and the min-volatility solve
\* second; after a failed max-Sharpe solve nothing more is solved, and a
\* sweep solve is made only after both distinguished solves succeeded.
C27_SolveOrder ==
    \A k \in DOMAIN solver_calls :
        /\ (k = 1) <=> (solver_calls[k].opt = "max_sharpe")
        /\ (k = 2) => (solver_calls[k].opt = "min_volatility")
        /\ (solver_calls[k].opt = "min_volatility") => (k = 2 /\ solver_calls[1].success)
        /\ (solver_calls[k].opt = "sweep") =>
              /\ k >= 3
              /\ solver_calls[1].success
              /\ solver_calls[2].success

C27_Witness ==
    /\ pc = "done"
    /\ Len(solver_calls) >= 4
    /\ solver_calls[3].opt = "sweep"
    /\ ~solver_calls[3].success
    /\ solver_calls[4].success

(***************************************************************************)
(* Properties of the rows of the returned table (under Spec).              *)
(***************************************************************************)
\* C28: every row of a returned frontier table is self-consistent: its
\* Return and Volatility are calculate_portfolio_performance of the weights
\* of the same row with the request's mean_returns and cov_matrix, and the
\* weights are stored in the asset order of mean_returns.
C28_RowsAreSelfConsistent ==
    returned.kind = "frame" =>
        \A r \in DOMAIN returned.rows :
            /\ Len(returned.rows[r].weights) = num_assets
            /\ LET p == calculate_portfolio_performance(returned.rows[r].weights,
                                                        mean_returns, cov_matrix)
               IN  /\ returned.rows[r].ret = p.ret
                   /\ returned.rows[r].var = p.var

C28_Witness ==
    /\ returned.kind = "frame"
    /\ Len(returned.rows) >= 3
    /\ num_assets >= 2
    /\ \A r \in DOMAIN returned.rows : returned.rows[r].ret # 0 /\ returned.rows[r].var # 0
    /\ returned.rows[3].weights # returned.rows[1].weights

\* C29: the rows of a returned table are Min Volatility, Max Sharpe, then
\* the successful sweep points in the order of their targets; the sweep
\* rows are labelled 'Portfolio 3', 'Portfolio 4', ... without gaps even
\* when targets in between failed, and all labels are distinct.
C29_RowOrderAndLabels ==
    NonEmptyFrame =>
        /\ Len(returned.rows) = 2 + Len(SweepSuccesses)
        /\ returned.rows[1].label = <<"Min Volatility">>
        /\ returned.rows[1].weights = min_vol.weights
        /\ returned.rows[2].label = <<"Max Sharpe">>
        /\ returned.rows[2].weights = max_sharpe.weights
        /\ \A k \in 1..Len(SweepSuccesses) :
              /\ returned.rows[2 + k].label = <<"Portfolio", 2 + k>>
              /\ returned.rows[2 + k].ret * SweepSuccesses[k].target.den
                    = SweepSuccesses[k].target.num
        /\ \A r, q \in DOMAIN returned.rows :
              r # q => returned.rows[r].label # returned.rows[q].label

\* a table whose sweep failed at a target between two successes
C29_Witness ==
    /\ NonEmptyFrame
    /\ Len(returned.rows) = 4
    /\ Len(SweepCalls) = 3
    /\ ~SweepCalls[2].success
    /\ returned.rows[3].ret # returned.rows[4].ret

(***************************************************************************)
(* Properties of the page flow (under SpecPage).                           *)
(***************************************************************************)
\* C26: a fetched price table that is empty or holds a missing price is
\* rejected before any statistic is computed: calculate_returns, the mean
\* and covariance, the optimizer and the simulator are never reached.
C26_BadPriceTableIsRejected ==
    (page_pc \notin {"idle", "start"}
        /\ Len(portfolio_tickers) >= 2
        /\ (page_data.columns = 0 \/ page_data.rows = 0 \/ page_data.isnull)) =>
        /\ page_pc = "done"
        /\ page_calls = <<"get_stock_data">>
        /\ page_returns = NoTable
        /\ pc = "idle"
        /\ solver_calls = << >>
        /\ sim_pc = "idle"

C26_Witness ==
    /\ page_pc = "done"
    /\ Len(portfolio_tickers) >= 2
    /\ page_data.isnull
    /\ page_data.rows > 2
    /\ page_calls = <<"get_stock_data">>

\* the frontier row the user's choice names
ChosenPoint ==
    IF selected_portfolio_for_sim = "Max Sharpe" THEN max_sharpe ELSE min_vol

\* C30: on the page the simulator runs only after a non-empty frontier was
\* produced, with exactly the weights of the row the user's choice names
\* ('Max Sharpe' or 'Min Volatility'); when the optimizer fails (empty
\* table or exception) the simulator is never called.
C30_SimulatorOnlyAfterFrontier ==
    page_pc # "idle" =>
        /\ (sim_pc # "idle" \/ "run_bootstrap_simulation" \in Range(page_calls)) =>
              /\ pc = "done"
              /\ NonEmptyFrame
              /\ "generate_efficient_frontier" \in Range(page_calls)
              /\ selected_portfolio_for_sim \in {"Max Sharpe", "Min Volatility"}
              /\ weights = ChosenPoint.weights
              /\ \E r \in DOMAIN returned.rows :
                    /\ returned.rows[r].label = <<selected_portfolio_for_sim>>
                    /\ returned.rows[r].weights = weights
              /\ returns_df = page_returns
        /\ ~NonEmptyFrame =>
              /\ sim_pc = "idle"
              /\ "run_bootstrap_simulation" \notin Range(page_calls)

C30_Witness ==
    /\ page_pc = "done"
    /\ sim_pc = "done"
    /\ selected_portfolio_for_sim = "Min Volatility"
    /\ min_vol.weights # max_sharpe.weights
    /\ weights = min_vol.weights
    /\ Len(sim_returned.end_values) = 1

=============================================================================
